---- MODULE Spec2Model ----
(***************************************************************************)
(* Console controller of the plugin workspace API                          *)
(* (api/controllers/console/workspace/plugin.py).                          *)
(*                                                                         *)
(* A request is handled by running the decorators of the method, then the  *)
(* body of the method: argument parsing, the checks of the body, the       *)
(* service calls and the translation of their outcome into the response.   *)
(* Requests are served on separate workers and a handler takes no lock: a  *)
(* handler is one step up to and including a call that reads or writes a   *)
(* tenant record, and the steps of different handlers interleave.  A       *)
(* handler that makes one such call is one action; the permission          *)
(* decorator, which reads the tenant's permission before the method runs,  *)
(* and the two handlers that make two calls are an action per call.  The   *)
(* services, the decorators, the enum classes and the configuration live   *)
(* outside this file; they are modelled from the specification and marked  *)
(* so in the model map.                                                    *)
(***************************************************************************)
EXTENDS Integers, Sequences, FiniteSets, TLC

VARIABLES
    permission,  \* tenant -> stored TenantPluginPermission, or None
    strategy,    \* tenant -> stored TenantPluginAutoUpgradeStrategy, or None
    tasks,       \* <<tenant, task_id>> -> items of the install task, or NoTask
    req,         \* the request of the handler that moved last: operation and caller
    args,        \* what that handler parsed from the request (NotParsed before)
    calls,       \* the service calls that handler has made for req, in order
    daemon,      \* what the last service call of req came back with
    resp,        \* the response of req (Working while the handler is suspended)
    pending      \* worker -> the locals of the handler suspended on it between two calls

vars == <<permission, strategy, tasks, req, args, calls, daemon, resp, pending>>

stores == <<permission, strategy, tasks>>

(***************************************************************************)
(* Bounds of the model.                                                    *)
(***************************************************************************)
MaxFileSize == 3
MaxBatch == 2

(***************************************************************************)
(* Tenants and callers.                                                    *)
(***************************************************************************)
Tenants == {"t1", "t2"}

None == [absent |-> TRUE]

Account(t, a) == [authenticated |-> TRUE, current_tenant_id |-> t, is_admin_or_owner |-> a]

Anonymous == [authenticated |-> FALSE, current_tenant_id |-> "", is_admin_or_owner |-> FALSE]

\* the accounts that act: an owner and a member of t1, a member of t2
Accounts == {Account("t1", TRUE), Account("t1", FALSE), Account("t2", FALSE)}

Callers == Accounts \cup {Anonymous}

(***************************************************************************)
(* Python values that cross the boundary: strings, exceptions.             *)
(***************************************************************************)
Str(s) == [type |-> "str", value |-> s]

NoExc == [cls |-> "", args |-> <<>>]

Forbidden == [cls |-> "Forbidden", args |-> <<>>]

Unauthorized == [cls |-> "Unauthorized", args |-> <<>>]

ValueError(a) == [cls |-> "ValueError", args |-> <<a>>]

\* core.plugin.impl.exc: an error reported by the plugin daemon
DaemonError(cls, code, message) ==
    [type |-> "exc", cls |-> cls, code |-> code, message |-> message]

DaemonErrors ==
    {DaemonError("PluginDaemonClientSideError", "not_found", "no such plugin"),
     DaemonError("PluginDaemonClientSideError", "unavailable", "daemon unreachable"),
     DaemonError("PluginDaemonInternalServerError", "internal", "daemon crashed")}

\* isinstance(e, PluginDaemonClientSideError)
IsClientSideError(e) == e.cls = "PluginDaemonClientSideError"

(***************************************************************************)
(* Requests, service calls, outcomes, responses.                           *)
(***************************************************************************)
NotParsed == [parsed |-> FALSE]

NoOutcome == [kind |-> "none"]

Returned(v) == [kind |-> "ok", value |-> v]

Raised(e) == [kind |-> "raise", exc |-> e]

NoTenant == ""

Call(svc, t, a) == [svc |-> svc, tenant_id |-> t, args |-> a]

NoBody == [empty |-> TRUE]

Ok(body) == [kind |-> "ok", body |-> body, exc |-> NoExc]

Raise(e) == [kind |-> "error", body |-> NoBody, exc |-> e]

Working == [kind |-> "working", body |-> NoBody, exc |-> NoExc]

Quiet == [kind |-> "none", body |-> NoBody, exc |-> NoExc]

NoRequest == [op |-> "", user |-> Anonymous]

Workers == {"w1", "w2"}

IdleHandler == [pc |-> "idle"]

\* the response shown by resp, if any, has left for its caller: a worker shows
\* the next request after that; handlers suspended on other workers stay as they are
Delivered == resp.kind \notin {"ok", "error"}

(***************************************************************************)
(* models.account.TenantPluginPermission and the permission decorator.     *)
(***************************************************************************)
InstallPermission == {"everyone", "admins", "noone"}

DebugPermission == {"everyone", "admins", "noone"}

PermissionRecord(i, d) == [install_permission |-> i, debug_permission |-> d]

PermissionRecords == {PermissionRecord(i, d) : i \in InstallPermission, d \in DebugPermission}

\* one permission level (everyone / admins / noone) checked against a caller
Allows(level, u) ==
    \/ level = "everyone"
    \/ level = "admins" /\ u.is_admin_or_owner

\* libs.login.login_required
login_required(u) == IF u.authenticated THEN NoExc ELSE Unauthorized

\* controllers.console.workspace.plugin_permission_required
plugin_permission_required(install_required, debug_required, u) ==
    LET p == permission[u.current_tenant_id] IN
    IF p = None THEN NoExc
    ELSE IF install_required /\ ~Allows(p.install_permission, u) THEN Forbidden
    ELSE IF debug_required /\ ~Allows(p.debug_permission, u) THEN Forbidden
    ELSE NoExc

Plain == [login_required |-> TRUE, install_required |-> FALSE, debug_required |-> FALSE]

Install == [login_required |-> TRUE, install_required |-> TRUE, debug_required |-> FALSE]

Debug == [login_required |-> TRUE, install_required |-> FALSE, debug_required |-> TRUE]

Public == [login_required |-> FALSE, install_required |-> FALSE, debug_required |-> FALSE]

\* a slip: the uninstall and delete-task resources lose their permission decorator
Decorators_ungated(op) ==
    CASE op = "debugging_key" -> Debug
      [] op = "icon" -> Public
      [] op \in {"upload_pkg", "upload_github", "upload_bundle", "install_pkg",
                 "install_github", "install_marketplace", "marketplace_pkg",
                 "fetch_manifest", "tasks", "task", "task_delete_all",
                 "task_item_delete", "upgrade_marketplace", "upgrade_github"} -> Install
      [] OTHER -> Plain

\* the decorators stacked on the method of each resource class
Decorators(op) ==
    CASE op = "debugging_key" -> Debug
      [] op = "icon" -> Public
      [] op \in {"upload_pkg", "upload_github", "upload_bundle", "install_pkg",
                 "install_github", "install_marketplace", "marketplace_pkg",
                 "fetch_manifest", "tasks", "task", "task_delete", "task_delete_all",
                 "task_item_delete", "upgrade_marketplace", "upgrade_github",
                 "uninstall"} -> Install
      [] OTHER -> Plain

\* the exception the decorators of op raise for caller u, NoExc when they let u through
Intercept(op, u) ==
    LET d == Decorators(op) IN
    IF d.login_required /\ login_required(u) # NoExc THEN login_required(u)
    ELSE IF d.install_required \/ d.debug_required
         THEN plugin_permission_required(d.install_required, d.debug_required, u)
         ELSE NoExc

\* a method behind @plugin_permission_required
Gated(op) == Decorators(op).install_required \/ Decorators(op).debug_required

\* the locals of a handler whose decorators d have let caller u through and whose
\* method has not made its call yet
Admitted(u, d) == [pc |-> "admitted", user |-> u, decorators |-> d]

\* the decorators d of a gated method run on worker w for a caller they let
\* through: the permission of the tenant is read here, the method runs later
Admit(w, d) ==
    \E u \in Callers :
        /\ pending[w].pc = "idle"
        /\ login_required(u) = NoExc
        /\ plugin_permission_required(d.install_required, d.debug_required, u) = NoExc
        /\ pending' = [pending EXCEPT ![w] = Admitted(u, d)]
        /\ UNCHANGED <<stores, req, args, calls, daemon, resp>>

\* the worker that serves the gated methods
GateWorker == "w1"

plugin_permission_required_install == Admit(GateWorker, Install)

plugin_permission_required_debug == Admit(GateWorker, Debug)

\* how the method of op can go on for caller u: "denied" when a decorator raises,
\* "run" when the decorators let u into the method, which for a gated method is
\* when a handler holds the admission of u
Entries(op, u) ==
    (IF Intercept(op, u) # NoExc THEN {"denied"} ELSE {})
    \cup (IF Gated(op)
          THEN (IF \E w \in Workers : pending[w] = Admitted(u, Decorators(op))
                THEN {"run"} ELSE {})
          ELSE (IF Intercept(op, u) = NoExc THEN {"run"} ELSE {}))

\* the workers once the method of op has run: the admitted handler has finished
Entered(op, u, way) ==
    IF way = "run" /\ Gated(op)
    THEN [pending EXCEPT ![CHOOSE w \in Workers : pending[w] = Admitted(u, Decorators(op))] =
             IdleHandler]
    ELSE pending

\* a slip: the tenant is taken from somewhere else than the caller's session
TenantOf_other(u) == IF u.current_tenant_id = "t1" THEN "t2" ELSE "t1"

\* tenant_id = current_user.current_tenant_id
TenantOf(u) == u.current_tenant_id

\* user_id = current_user.id: the accounts are told apart by tenant and role
UserId(u) == <<u.current_tenant_id, u.is_admin_or_owner>>

\* a slip: the daemon's error is replaced by a message of the controller's own
Surface_reworded(e) == ValueError(Str("plugin daemon error"))

\* except PluginDaemonClientSideError as e: raise ValueError(e)
Surface(e) == ValueError(e)

\* try: <service call> except PluginDaemonClientSideError as e: raise ValueError(e)
Respond(out, body) ==
    IF out.kind = "ok" THEN Ok(body)
    ELSE IF IsClientSideError(out.exc) THEN Raise(Surface(out.exc))
    ELSE Raise(out.exc)

\* the handler stops in a decorator, or in a check of its body, before any service call
Stop(a, e) ==
    /\ args' = a
    /\ calls' = <<>>
    /\ daemon' = NoOutcome
    /\ resp' = Raise(e)

\* the handler makes its one service call and answers with its outcome
Serve(a, call, out, body) ==
    /\ args' = a
    /\ calls' = <<call>>
    /\ daemon' = out
    /\ resp' = Respond(out, body)

\* what a service returns when it succeeds: a page of plugins with their total,
\* the bytes and the mimetype of an asset, a manifest object, or a plain value
Result(op) ==
    CASE op = "list" -> [list |-> <<Str("plugin")>>, total |-> 1]
      [] op = "icon" -> <<Str("bytes"), Str("image/svg+xml")>>
      [] op = "fetch_manifest" -> [type |-> "PluginDeclaration", fields |-> Str("manifest")]
      [] OTHER -> Str("result")

\* what the daemon may answer to a call whose result the controller only passes on
DaemonOutcomes(op) == {Returned(Result(op))} \cup {Raised(e) : e \in DaemonErrors}

\* manifest.model_dump(): the fields of the model as a dictionary
model_dump(m) == m.fields

\* a slip: the result of the service is not handed back
SuccessBody_always(v) == [success |-> TRUE]

\* return {"success": <result of the service>}
SuccessBody(v) == [success |-> v]

\* the response a handler builds around the value v its service call returned
Body(op, v) ==
    CASE op = "debugging_key" -> [key |-> v, host |-> "PLUGIN_REMOTE_INSTALL_HOST",
                                  port |-> "PLUGIN_REMOTE_INSTALL_PORT"]
      [] op = "list" -> [plugins |-> v.list, total |-> v.total]
      [] op = "list_latest_versions" -> [versions |-> v]
      [] op = "list_installations_from_ids" -> [plugins |-> v]
      [] op = "icon" -> [send_file |-> v[1], mimetype |-> v[2],
                         max_age |-> "TOOL_ICON_CACHE_MAX_AGE"]
      [] op = "marketplace_pkg" -> [manifest |-> v]
      [] op = "fetch_manifest" -> [manifest |-> model_dump(v)]
      [] op = "uninstall" -> SuccessBody(v)
      [] op = "dynamic_options" -> [options |-> v]
      [] OTHER -> v

\* a daemon-backed handler with no check of its own and no effect on the modelled stores
Gateway(op, u, a, call) ==
    \E out \in DaemonOutcomes(op), way \in Entries(op, u) :
        /\ req' = [op |-> op, user |-> u]
        /\ IF way = "denied"
           THEN Stop(NotParsed, Intercept(op, u))
           ELSE Serve(a, call, out, Body(op, out.value))
        /\ pending' = Entered(op, u, way)
        /\ UNCHANGED stores

(***************************************************************************)
(* Resources backed by one daemon call (lines 22-108, 134-153, 258-304,    *)
(* 438-453, 502-535).                                                      *)
(***************************************************************************)
PluginIds == {"a", "b"}

Filenames == {"icon.svg"}

PluginDebuggingKeyApi_get ==
    /\ Delivered
    /\ \E u \in Callers :
           Gateway("debugging_key", u, [parsed |-> TRUE],
                   Call("PluginService.get_debugging_key", TenantOf(u), <<>>))

PluginListApi_get ==
    /\ Delivered
    /\ \E u \in Callers, page \in {1, 2} :
           Gateway("list", u, [parsed |-> TRUE, page |-> page, page_size |-> 256],
                   Call("PluginService.list_with_total", TenantOf(u), <<page, 256>>))

PluginListLatestVersionsApi_post ==
    /\ Delivered
    /\ \E u \in Callers, ids \in SUBSET PluginIds :
           Gateway("list_latest_versions", u, [parsed |-> TRUE, plugin_ids |-> ids],
                   Call("PluginService.list_latest_versions", NoTenant, <<ids>>))

PluginListInstallationsFromIdsApi_post ==
    /\ Delivered
    /\ \E u \in Callers, ids \in SUBSET PluginIds :
           Gateway("list_installations_from_ids", u, [parsed |-> TRUE, plugin_ids |-> ids],
                   Call("PluginService.list_installations_from_ids", TenantOf(u), <<ids>>))

PluginIconApi_get ==
    /\ Delivered
    /\ \E u \in Callers, t \in Tenants, f \in Filenames :
           Gateway("icon", u, [parsed |-> TRUE, tenant_id |-> t, filename |-> f],
                   Call("PluginService.get_asset", t, <<f>>))

PluginUploadFromGithubApi_post ==
    /\ Delivered
    /\ \E u \in Callers, p \in PluginIds :
           Gateway("upload_github", u, [parsed |-> TRUE, repo |-> "org/repo", version |-> "1", package |-> p],
                   Call("PluginService.upload_pkg_from_github", TenantOf(u), <<"org/repo", "1", p>>))

PluginFetchMarketplacePkgApi_get ==
    /\ Delivered
    /\ \E u \in Callers, p \in PluginIds :
           Gateway("marketplace_pkg", u, [parsed |-> TRUE, plugin_unique_identifier |-> p],
                   Call("PluginService.fetch_marketplace_pkg", TenantOf(u), <<p>>))

PluginFetchManifestApi_get ==
    /\ Delivered
    /\ \E u \in Callers, p \in PluginIds :
           Gateway("fetch_manifest", u, [parsed |-> TRUE, plugin_unique_identifier |-> p],
                   Call("PluginService.fetch_plugin_manifest", TenantOf(u), <<p>>))

PluginUninstallApi_post ==
    /\ Delivered
    /\ \E u \in Callers, p \in PluginIds :
           Gateway("uninstall", u, [parsed |-> TRUE, plugin_installation_id |-> p],
                   Call("PluginService.uninstall", TenantOf(u), <<p>>))

PluginFetchDynamicSelectOptionsApi_get ==
    /\ Delivered
    /\ \E u \in Callers, p \in PluginIds, out \in DaemonOutcomes("dynamic_options") :
       \E way \in Entries("dynamic_options", u) :
           /\ req' = [op |-> "dynamic_options", user |-> u]
           /\ IF way = "denied"
              THEN Stop(NotParsed, Intercept("dynamic_options", u))
              ELSE IF ~u.is_admin_or_owner
              THEN Stop(NotParsed, Forbidden)
              ELSE Serve([parsed |-> TRUE, plugin_id |-> p, provider |-> "provider",
                          action |-> "action", parameter |-> "parameter",
                          provider_type |-> "tool"],
                         Call("PluginParameterService.get_dynamic_select_options",
                              TenantOf(u), <<UserId(u), p, "provider", "action",
                                             "parameter", "tool">>),
                         out, Body("dynamic_options", out.value))
           /\ pending' = Entered("dynamic_options", u, way)
           /\ UNCHANGED stores

(***************************************************************************)
(* Uploads of a file (lines 111-131, 156-176).                             *)
(***************************************************************************)
\* dify_config.PLUGIN_MAX_PACKAGE_SIZE and PLUGIN_MAX_BUNDLE_SIZE, scaled down
PLUGIN_MAX_PACKAGE_SIZE == 1
PLUGIN_MAX_BUNDLE_SIZE == 2

\* request.files[...]: content_length is what the part's Content-Length header
\* declares (0 when the part has none); size is the length of what file.read() returns
Files == {[content_length |-> c, size |-> n] : c \in 0..MaxFileSize, n \in 0..MaxFileSize}

\* if file.content_length > dify_config.PLUGIN_MAX_..._SIZE
TooLarge(file, max) == file.content_length > max

Upload(op, svc, max) ==
    \E u \in Callers, file \in Files, out \in DaemonOutcomes(op) :
    \E way \in Entries(op, u) :
        /\ req' = [op |-> op, user |-> u]
        /\ IF way = "denied"
           THEN Stop(NotParsed, Intercept(op, u))
           ELSE IF TooLarge(file, max)
           THEN Stop([parsed |-> TRUE, file |-> file],
                     ValueError(Str("File size exceeds the maximum allowed size")))
           ELSE Serve([parsed |-> TRUE, file |-> file],
                      Call(svc, TenantOf(u), <<file.size>>), out, Body(op, out.value))
        /\ pending' = Entered(op, u, way)
        /\ UNCHANGED stores

PluginUploadFromPkgApi_post ==
    /\ Delivered
    /\ Upload("upload_pkg", "PluginService.upload_pkg", PLUGIN_MAX_PACKAGE_SIZE)

PluginUploadFromBundleApi_post ==
    /\ Delivered
    /\ Upload("upload_bundle", "PluginService.upload_bundle", PLUGIN_MAX_BUNDLE_SIZE)

(***************************************************************************)
(* The task store behind PluginService (specification 3, 4.3, 4.4).        *)
(***************************************************************************)
TaskIds == {"k1"}

TaskIdArgs == TaskIds \cup {"k0"}

IdentifierArgs == PluginIds \cup {"zz"}

TaskKeys == Tenants \X TaskIds

ItemStatus == {"pending", "running", "success", "failed"}

NoItems == [i \in PluginIds |-> "-"]

NoTask == [exists |-> FALSE, items |-> NoItems]

\* the identifiers of the items of a task
ItemsOf(task) == {i \in PluginIds : task.items[i] # "-"}

\* a status that reports partial_failure as soon as one item has failed
AggregateStatus_anyFailed(task) ==
    LET st == {task.items[i] : i \in ItemsOf(task)} IN
    IF st \subseteq {"success"} THEN "completed"
    ELSE IF "failed" \in st THEN "partial_failure"
    ELSE IF st \subseteq {"pending"} THEN "pending"
    ELSE "running"

\* InstallTask.status, derived from the items of the task
AggregateStatus(task) ==
    LET st == {task.items[i] : i \in ItemsOf(task)} IN
    IF st \subseteq {"success"} THEN "completed"
    ELSE IF st \subseteq {"pending"} THEN "pending"
    ELSE IF st \cap {"pending", "running"} # {} THEN "running"
    ELSE "partial_failure"

TaskView(k, task) ==
    [task_id |-> k, status |-> AggregateStatus(task),
     total_count |-> Cardinality(ItemsOf(task)), items |-> task.items]

Lookup(ts, tenant_id, k) ==
    IF <<tenant_id, k>> \in TaskKeys THEN ts[<<tenant_id, k>>] ELSE NoTask

\* create_task(tenant_id, items): one item per identifier, all pending
create_task(ts, tenant_id, k, ids) ==
    IF ids = {} THEN ts
    ELSE [ts EXCEPT ![<<tenant_id, k>>] =
             [exists |-> TRUE, items |-> [i \in PluginIds |-> IF i \in ids THEN "pending" ELSE "-"]]]

\* the task ids the daemon may hand out for a new task of the tenant
FreeTaskIds(ts, tenant_id) == {k \in TaskIds : ~ts[<<tenant_id, k>>].exists}

NotFound == DaemonError("PluginDaemonClientSideError", "not_found", "task not found")

\* get_task(tenant_id, task_id) -> InstallTask | fails(NotFound)
get_task(ts, tenant_id, k) ==
    IF Lookup(ts, tenant_id, k).exists
    THEN Returned(TaskView(k, Lookup(ts, tenant_id, k)))
    ELSE Raised(NotFound)

\* list_tasks(tenant_id, page, page_size)
list_tasks(ts, tenant_id, page, page_size) ==
    LET present == {k \in TaskIds : ts[<<tenant_id, k>>].exists}
        all == IF present = {} THEN <<>>
               ELSE <<TaskView(CHOOSE k \in present : TRUE,
                               ts[<<tenant_id, CHOOSE k \in present : TRUE>>])>>
        lo == (page - 1) * page_size + 1
        hi == IF page * page_size < Len(all) THEN page * page_size ELSE Len(all)
    IN SubSeq(all, lo, hi)

\* delete_task(tenant_id, task_id) -> bool: false when the task is absent
delete_task_result(ts, tenant_id, k) == Lookup(ts, tenant_id, k).exists

delete_task(ts, tenant_id, k) ==
    IF Lookup(ts, tenant_id, k).exists THEN [ts EXCEPT ![<<tenant_id, k>>] = NoTask] ELSE ts

\* delete_all_items(tenant_id) -> bool: the tasks of the tenant are gone when it
\* answers true, and the store is as it was when it answers false
delete_all_items(deleted, ts, tenant_id) ==
    IF deleted
    THEN [key \in TaskKeys |-> IF key[1] = tenant_id THEN NoTask ELSE ts[key]]
    ELSE ts

\* delete_item(tenant_id, task_id, identifier) -> bool: false when the item is absent
delete_item_result(ts, tenant_id, k, id) ==
    /\ Lookup(ts, tenant_id, k).exists
    /\ id \in ItemsOf(Lookup(ts, tenant_id, k))

\* removing the last item of a task deletes the task itself
delete_item(ts, tenant_id, k, id) ==
    IF ~delete_item_result(ts, tenant_id, k, id) THEN ts
    ELSE LET left == [ts[<<tenant_id, k>>].items EXCEPT ![id] = "-"] IN
         [ts EXCEPT ![<<tenant_id, k>>] =
             IF left = NoItems THEN NoTask ELSE [exists |-> TRUE, items |-> left]]

\* progress is monotonic: an item leaves pending, then ends in success or failed
Progresses(old, new) ==
    \/ old = "pending" /\ new \in {"running", "success", "failed"}
    \/ old = "running" /\ new \in {"success", "failed"}

\* update_item(task_id, identifier, status): reconciliation of the daemon's progress
DaemonProgress ==
    \E key \in TaskKeys, id \in PluginIds, new \in ItemStatus :
        /\ Delivered
        /\ tasks[key].exists
        /\ id \in ItemsOf(tasks[key])
        /\ Progresses(tasks[key].items[id], new)
        /\ tasks' = [tasks EXCEPT ![key].items[id] = new]
        /\ UNCHANGED <<permission, strategy, pending, req, args, calls, daemon, resp>>

(***************************************************************************)
(* Installs and upgrades (lines 179-255, 384-435).                         *)
(***************************************************************************)
\* the JSON values a plugin_unique_identifiers list may hold
Elements == {Str("a"), Str("b"), Str("not an identifier"), [type |-> "int", value |-> "7"]}

Batches == UNION {[1..n -> Elements] : n \in 0..MaxBatch}

\* a slip: only the first element of the batch is looked at
AllStrings_first(batch) == Len(batch) = 0 \/ batch[1].type = "str"

\* for x in args["plugin_unique_identifiers"]: if not isinstance(x, str): raise
AllStrings(batch) == \A i \in 1..Len(batch) : batch[i].type = "str"

\* the list handed to the service: every string of the batch, in its order, repeats kept
IdsOf(batch) == [i \in 1..Len(batch) |-> batch[i].value]

\* the resolution step of the installation service: the identifiers of the list
\* that name a plugin; a task has one item for each of them
resolve(ids) == {ids[i] : i \in 1..Len(ids)} \cap PluginIds

\* a service call that starts an installation: the daemon refuses, or accepts and
\* answers with a task id of its choice, which the handler hands back as it is.
\* An id that is free names a task opened by the service for the identifiers of the
\* list that pass its resolution; an id in use names
\* the task that already runs under it, whose items are fixed since its creation
StartInstall(a, svc, u, a_call, ids) ==
    \E ok \in BOOLEAN, e \in DaemonErrors, k \in TaskIds :
        LET out == IF ok THEN Returned([task_id |-> k]) ELSE Raised(e) IN
        /\ Serve(a, Call(svc, TenantOf(u), a_call), out, out.value)
        /\ tasks' = IF ok /\ k \in FreeTaskIds(tasks, TenantOf(u))
                    THEN create_task(tasks, TenantOf(u), k, resolve(ids)) ELSE tasks

InstallBatch(op, svc) ==
    \E u \in Callers, batch \in Batches :
    \E way \in Entries(op, u) :
        /\ req' = [op |-> op, user |-> u]
        /\ IF way = "denied"
           THEN Stop(NotParsed, Intercept(op, u)) /\ tasks' = tasks
           ELSE IF ~AllStrings(batch)
           THEN /\ Stop([parsed |-> TRUE, plugin_unique_identifiers |-> batch],
                        ValueError(Str("Invalid plugin unique identifier")))
                /\ tasks' = tasks
           ELSE StartInstall([parsed |-> TRUE, plugin_unique_identifiers |-> batch],
                             svc, u, <<batch>>, IdsOf(batch))
        /\ pending' = Entered(op, u, way)
        /\ UNCHANGED <<permission, strategy>>

PluginInstallFromPkgApi_post ==
    /\ Delivered
    /\ InstallBatch("install_pkg", "PluginService.install_from_local_pkg")

PluginInstallFromMarketplaceApi_post ==
    /\ Delivered
    /\ InstallBatch("install_marketplace", "PluginService.install_from_marketplace_pkg")

InstallOne(op, svc, u, a, a_call, id) ==
    \E way \in Entries(op, u) :
        /\ req' = [op |-> op, user |-> u]
        /\ IF way = "denied"
           THEN Stop(NotParsed, Intercept(op, u)) /\ tasks' = tasks
           ELSE StartInstall(a, svc, u, a_call, <<id>>)
        /\ pending' = Entered(op, u, way)
        /\ UNCHANGED <<permission, strategy>>

PluginInstallFromGithubApi_post ==
    /\ Delivered
    /\ \E u \in Callers, p \in PluginIds :
           InstallOne("install_github", "PluginService.install_from_github", u,
                      [parsed |-> TRUE, plugin_unique_identifier |-> p, repo |-> "org/repo",
                       version |-> "1", package |-> "pkg"],
                      <<p, "org/repo", "1", "pkg">>, p)

PluginUpgradeFromMarketplaceApi_post ==
    /\ Delivered
    /\ \E u \in Callers, old \in PluginIds, new \in PluginIds :
           InstallOne("upgrade_marketplace", "PluginService.upgrade_plugin_with_marketplace", u,
                      [parsed |-> TRUE, original_plugin_unique_identifier |-> old,
                       new_plugin_unique_identifier |-> new],
                      <<old, new>>, new)

PluginUpgradeFromGithubApi_post ==
    /\ Delivered
    /\ \E u \in Callers, old \in PluginIds, new \in PluginIds :
           InstallOne("upgrade_github", "PluginService.upgrade_plugin_with_github", u,
                      [parsed |-> TRUE, original_plugin_unique_identifier |-> old,
                       new_plugin_unique_identifier |-> new, repo |-> "org/repo",
                       version |-> "1", package |-> "pkg"],
                      <<old, new, "org/repo", "1", "pkg">>, new)

(***************************************************************************)
(* Install tasks (lines 307-381).                                          *)
(***************************************************************************)
\* a handler over the task store: the daemon fails, or the store answers with
\* `result` and is left as `after`
TaskRequest(op, u, a, call, result, after) ==
    \E ok \in BOOLEAN, e \in DaemonErrors, way \in Entries(op, u) :
        LET out == IF ok THEN result ELSE Raised(e) IN
        /\ req' = [op |-> op, user |-> u]
        /\ IF way = "denied"
           THEN Stop(NotParsed, Intercept(op, u)) /\ tasks' = tasks
           ELSE /\ Serve(a, call, out,
                         CASE op = "tasks" -> [tasks |-> out.value]
                           [] op = "task" -> [task |-> out.value]
                           [] OTHER -> SuccessBody(out.value))
                /\ tasks' = IF ok THEN after ELSE tasks
        /\ pending' = Entered(op, u, way)
        /\ UNCHANGED <<permission, strategy>>

PluginFetchInstallTasksApi_get ==
    /\ Delivered
    /\ \E u \in Callers, page \in {1, 2} :
           TaskRequest("tasks", u, [parsed |-> TRUE, page |-> page, page_size |-> 1],
                       Call("PluginService.fetch_install_tasks", TenantOf(u), <<page, 1>>),
                       Returned(list_tasks(tasks, TenantOf(u), page, 1)), tasks)

PluginFetchInstallTaskApi_get ==
    /\ Delivered
    /\ \E u \in Callers, k \in TaskIdArgs :
           TaskRequest("task", u, [parsed |-> TRUE, task_id |-> k],
                       Call("PluginService.fetch_install_task", TenantOf(u), <<k>>),
                       get_task(tasks, TenantOf(u), k), tasks)

PluginDeleteInstallTaskApi_post ==
    /\ Delivered
    /\ \E u \in Callers, k \in TaskIdArgs :
           TaskRequest("task_delete", u, [parsed |-> TRUE, task_id |-> k],
                       Call("PluginService.delete_install_task", TenantOf(u), <<k>>),
                       Returned(delete_task_result(tasks, TenantOf(u), k)),
                       delete_task(tasks, TenantOf(u), k))

PluginDeleteAllInstallTaskItemsApi_post ==
    /\ Delivered
    /\ \E u \in Callers, deleted \in BOOLEAN :
           TaskRequest("task_delete_all", u, [parsed |-> TRUE],
                       Call("PluginService.delete_all_install_task_items", TenantOf(u), <<>>),
                       Returned(deleted), delete_all_items(deleted, tasks, TenantOf(u)))

DeleteItem(u, k, id) ==
    TaskRequest("task_item_delete", u, [parsed |-> TRUE, task_id |-> k, identifier |-> id],
                Call("PluginService.delete_install_task_item", TenantOf(u), <<k, id>>),
                Returned(delete_item_result(tasks, TenantOf(u), k, id)),
                delete_item(tasks, TenantOf(u), k, id))

PluginDeleteInstallTaskItemApi_post ==
    /\ Delivered
    /\ \E u \in Callers, k \in TaskIdArgs, id \in IdentifierArgs : DeleteItem(u, k, id)

\* the caller submits the delete-item request it has just been answered once more
PluginDeleteInstallTaskItemApi_post_again ==
    /\ req.op = "task_item_delete"
    /\ resp.kind \in {"ok", "error"}
    /\ args.parsed
    /\ DeleteItem(req.user, args.task_id, args.identifier)

(***************************************************************************)
(* Tenant permission (lines 456-499).                                      *)
(***************************************************************************)
\* the strings a caller may send where a permission level is expected
PermissionInputs == InstallPermission \cup {"bogus"}

\* Enum(value): the ValueError of a value that is no member of the enum, or NoExc
EnumError(members, v) == IF v \in members THEN NoExc ELSE ValueError(Str(v))

\* the first exception among a sequence of checks made in order, or NoExc
FirstError(checks) ==
    IF \A i \in 1..Len(checks) : checks[i] = NoExc THEN NoExc
    ELSE checks[CHOOSE i \in 1..Len(checks) :
                    checks[i] # NoExc /\ \A j \in 1..(i - 1) : checks[j] = NoExc]

\* PluginPermissionService.get_permission(tenant_id) -> Permission | None
get_permission(tenant_id) == permission[tenant_id]

\* PluginPermissionService.change_permission(tenant_id, install, debug) -> bool
change_permission(wrote, tenant_id, i, d) ==
    IF wrote THEN [permission EXCEPT ![tenant_id] = PermissionRecord(i, d)] ELSE permission

\* the two enum conversions made before change_permission is called
PermissionInvalid(i, d) ==
    FirstError(<<EnumError(InstallPermission, i), EnumError(DebugPermission, d)>>)

PluginChangePermissionApi_post ==
    /\ Delivered
    /\ \E u \in Callers, i \in PermissionInputs, d \in PermissionInputs, wrote \in BOOLEAN :
           LET a == [parsed |-> TRUE, install_permission |-> i, debug_permission |-> d] IN
           /\ req' = [op |-> "permission_change", user |-> u]
           /\ IF Intercept("permission_change", u) # NoExc
              THEN Stop(NotParsed, Intercept("permission_change", u)) /\ permission' = permission
              ELSE IF ~u.is_admin_or_owner
              THEN Stop(NotParsed, Forbidden) /\ permission' = permission
              ELSE IF PermissionInvalid(i, d) # NoExc
              THEN Stop(a, PermissionInvalid(i, d)) /\ permission' = permission
              ELSE /\ args' = a
                   /\ calls' = <<Call("PluginPermissionService.change_permission",
                                      TenantOf(u), <<i, d>>)>>
                   /\ daemon' = Returned(wrote)
                   /\ resp' = Ok(SuccessBody(wrote))
                   /\ permission' = change_permission(wrote, TenantOf(u), i, d)
           /\ UNCHANGED <<strategy, tasks, pending>>

\* a slip: a tenant without a record is reported as restricted to admins
PermissionView_strict(p) ==
    IF p = None
    THEN [install_permission |-> "admins", debug_permission |-> "admins"]
    ELSE [install_permission |-> p.install_permission,
          debug_permission |-> p.debug_permission]

\* the permission a fetch reports for what get_permission returned
PermissionView(p) ==
    IF p = None
    THEN [install_permission |-> "everyone", debug_permission |-> "everyone"]
    ELSE [install_permission |-> p.install_permission,
          debug_permission |-> p.debug_permission]

PluginFetchPermissionApi_get ==
    /\ Delivered
    /\ \E u \in Callers :
           /\ req' = [op |-> "permission_fetch", user |-> u]
           /\ IF Intercept("permission_fetch", u) # NoExc
              THEN Stop(NotParsed, Intercept("permission_fetch", u))
              ELSE /\ args' = [parsed |-> TRUE]
                   /\ calls' = <<Call("PluginPermissionService.get_permission", TenantOf(u), <<>>)>>
                   /\ daemon' = Returned(get_permission(TenantOf(u)))
                   /\ resp' = Ok(PermissionView(get_permission(TenantOf(u))))
           /\ UNCHANGED <<stores, pending>>

(***************************************************************************)
(* Preferences: permission and auto-upgrade strategy (lines 538-628).      *)
(***************************************************************************)
StrategySetting == {"disabled", "fix_only", "all"}

UpgradeMode == {"exclude", "include"}

StrategyRecord(setting, time, mode, exclude, include) ==
    [strategy_setting |-> setting, upgrade_time_of_day |-> time, upgrade_mode |-> mode,
     exclude_plugins |-> exclude, include_plugins |-> include]

\* a key of a request dictionary: <<>> when the key is absent, <<v>> when it holds v
Get(opt, default) == IF opt = <<>> THEN default ELSE opt[1]

\* the "permission" objects a caller may send
PermissionDicts ==
    {[install_permission |-> <<>>, debug_permission |-> <<>>],
     [install_permission |-> <<"admins">>, debug_permission |-> <<"noone">>],
     [install_permission |-> <<"bogus">>, debug_permission |-> <<>>],
     [install_permission |-> <<"admins">>, debug_permission |-> <<"bogus">>]}

AutoUpgrade(setting, time, mode, exclude, include) ==
    [strategy_setting |-> setting, upgrade_time_of_day |-> time, upgrade_mode |-> mode,
     exclude_plugins |-> exclude, include_plugins |-> include]

\* an "auto_upgrade" object without any of its five keys
AllAbsent == AutoUpgrade(<<>>, <<>>, <<>>, <<>>, <<>>)

\* the "auto_upgrade" objects a caller may send
AutoUpgradeDicts ==
    {AllAbsent,
     AutoUpgrade(<<"all">>, <<60>>, <<"include">>, <<(<<"a">>)>>, <<(<<"b">>)>>),
     AutoUpgrade(<<"disabled">>, <<>>, <<>>, <<>>, <<>>),
     AutoUpgrade(<<"bogus">>, <<>>, <<>>, <<>>, <<>>),
     AutoUpgrade(<<"all">>, <<>>, <<"bogus">>, <<>>, <<>>)}

\* the strategy change-preferences stores for an auto_upgrade object (lines 561-567)
StrategyOf(au) ==
    StrategyRecord(Get(au.strategy_setting, "fix_only"), Get(au.upgrade_time_of_day, 0),
                   Get(au.upgrade_mode, "exclude"), Get(au.exclude_plugins, <<>>),
                   Get(au.include_plugins, <<>>))

\* the permission change-preferences stores for a permission object (lines 556-557)
PermissionOf(pd) ==
    PermissionRecord(Get(pd.install_permission, "everyone"),
                     Get(pd.debug_permission, "everyone"))

\* a slip: the auto_upgrade values are converted only after the permission is written
PreferencesInvalid_late(pd, au) ==
    FirstError(<<EnumError(InstallPermission, PermissionOf(pd).install_permission),
                 EnumError(DebugPermission, PermissionOf(pd).debug_permission)>>)

\* the four enum conversions made, in order, before the first write (lines 556-565)
PreferencesInvalid(pd, au) ==
    FirstError(<<EnumError(InstallPermission, PermissionOf(pd).install_permission),
                 EnumError(DebugPermission, PermissionOf(pd).debug_permission),
                 EnumError(StrategySetting, StrategyOf(au).strategy_setting),
                 EnumError(UpgradeMode, StrategyOf(au).upgrade_mode)>>)

\* PluginAutoUpgradeService.get_strategy(tenant_id) -> Strategy | None
get_strategy(tenant_id) == strategy[tenant_id]

\* PluginAutoUpgradeService.change_strategy(tenant_id, ...) -> bool
change_strategy(wrote, tenant_id, s) ==
    IF wrote THEN [strategy EXCEPT ![tenant_id] = s] ELSE strategy

\* a slip: the result of a write is not looked at
Failed_never(result) == FALSE

\* if not set_permission_result / if not set_auto_upgrade_strategy_result
Failed(result) == ~result

\* change-preferences of caller u with objects pd and au, served on worker w,
\* up to and including its first write, which returns `wrote` (lines 543-576)
ChangePreferences(w, u, pd, au, wrote) ==
    LET a == [parsed |-> TRUE, permission |-> pd, auto_upgrade |-> au]
        write == Call("PluginPermissionService.change_permission", TenantOf(u),
                      <<PermissionOf(pd).install_permission,
                        PermissionOf(pd).debug_permission>>)
    IN  /\ pending[w].pc = "idle"
        /\ req' = [op |-> "preferences_change", user |-> u]
        /\ IF Intercept("preferences_change", u) # NoExc
           THEN /\ Stop(NotParsed, Intercept("preferences_change", u))
                /\ UNCHANGED <<permission, pending>>
           ELSE IF ~u.is_admin_or_owner
           THEN Stop(NotParsed, Forbidden) /\ UNCHANGED <<permission, pending>>
           ELSE IF PreferencesInvalid(pd, au) # NoExc
           THEN Stop(a, PreferencesInvalid(pd, au)) /\ UNCHANGED <<permission, pending>>
           ELSE /\ args' = a
                /\ calls' = <<write>>
                /\ daemon' = Returned(wrote)
                /\ permission' = change_permission(wrote, TenantOf(u),
                                                   PermissionOf(pd).install_permission,
                                                   PermissionOf(pd).debug_permission)
                /\ IF Failed(wrote)
                   THEN /\ resp' = Ok([success |-> FALSE, message |-> "Failed to set permission"])
                        /\ pending' = pending
                   ELSE /\ resp' = Working
                        /\ pending' = [pending EXCEPT ![w] =
                               [pc |-> "set_strategy", user |-> u, args |-> a,
                                calls |-> <<write>>]]
        /\ UNCHANGED <<strategy, tasks>>

\* a worker takes a change-preferences request and runs it up to its first write
PluginChangePreferencesApi_post ==
    /\ Delivered
    /\ \E w \in Workers, u \in Callers, pd \in PermissionDicts, au \in AutoUpgradeDicts,
          wrote \in BOOLEAN :
           ChangePreferences(w, u, pd, au, wrote)

\* the handler on worker w goes on from its first write: the second write and the
\* response (lines 578-590)
ChangePreferencesEnd(w) ==
    \E wrote \in BOOLEAN :
        LET u == pending[w].user
            s == StrategyOf(pending[w].args.auto_upgrade)
        IN  /\ pending[w].pc = "set_strategy"
            /\ req' = [op |-> "preferences_change", user |-> u]
            /\ args' = pending[w].args
            /\ calls' = Append(pending[w].calls,
                               Call("PluginAutoUpgradeService.change_strategy",
                                    TenantOf(u), <<s>>))
            /\ daemon' = Returned(wrote)
            /\ strategy' = change_strategy(wrote, TenantOf(u), s)
            /\ resp' = IF Failed(wrote)
                       THEN Ok([success |-> FALSE,
                                message |-> "Failed to set auto upgrade strategy"])
                       ELSE Ok([success |-> TRUE])
            /\ pending' = [pending EXCEPT ![w] =
                   [pc |-> "done", user |-> u, args |-> pending[w].args,
                    success |-> ~Failed(wrote)]]
            /\ UNCHANGED <<permission, tasks>>

PluginChangePreferencesApi_post_strategy == \E w \in Workers : ChangePreferencesEnd(w)

\* the auto_upgrade object fetch-preferences reports (lines 610-626)
StrategyView(s) ==
    IF s = None THEN StrategyRecord("disabled", 0, "exclude", <<>>, <<>>)
    ELSE StrategyRecord(s.strategy_setting, s.upgrade_time_of_day, s.upgrade_mode,
                        s.exclude_plugins, s.include_plugins)

\* the permission object fetch-preferences reports (lines 600-608)
PreferencesPermissionView(p) ==
    IF p = None
    THEN [install_permission |-> "everyone", debug_permission |-> "everyone"]
    ELSE [install_permission |-> p.install_permission,
          debug_permission |-> p.debug_permission]

\* a worker takes a fetch-preferences request and runs it up to and including
\* its first read, of the permission (lines 597-598)
PluginFetchPreferencesApi_get ==
    /\ Delivered
    /\ \E w \in Workers, u \in Callers :
           LET read == Call("PluginPermissionService.get_permission", TenantOf(u), <<>>) IN
           /\ pending[w].pc = "idle"
           /\ req' = [op |-> "preferences_fetch", user |-> u]
           /\ IF Intercept("preferences_fetch", u) # NoExc
              THEN /\ Stop(NotParsed, Intercept("preferences_fetch", u))
                   /\ pending' = pending
              ELSE /\ args' = [parsed |-> TRUE]
                   /\ calls' = <<read>>
                   /\ daemon' = Returned(get_permission(TenantOf(u)))
                   /\ resp' = Working
                   /\ pending' = [pending EXCEPT ![w] =
                          [pc |-> "get_strategy", user |-> u, args |-> [parsed |-> TRUE],
                           calls |-> <<read>>, permission |-> get_permission(TenantOf(u))]]
           /\ UNCHANGED stores

\* the handler on worker w goes on from its first read: the read of the strategy
\* and the response built from both reads (lines 600-628)
FetchPreferencesEnd(w) ==
    LET u == pending[w].user IN
    /\ pending[w].pc = "get_strategy"
    /\ req' = [op |-> "preferences_fetch", user |-> u]
    /\ args' = pending[w].args
    /\ calls' = Append(pending[w].calls,
                       Call("PluginAutoUpgradeService.get_strategy", TenantOf(u), <<>>))
    /\ daemon' = Returned(get_strategy(TenantOf(u)))
    /\ resp' = Ok([permission |-> PreferencesPermissionView(pending[w].permission),
                   auto_upgrade |-> StrategyView(get_strategy(TenantOf(u)))])
    /\ pending' = [pending EXCEPT ![w] = IdleHandler]
    /\ UNCHANGED stores

PluginFetchPreferencesApi_get_strategy == \E w \in Workers : FetchPreferencesEnd(w)

(***************************************************************************)
(* Auto-upgrade: exclude one plugin (lines 631-643).                       *)
(***************************************************************************)
\* a slip: the id is added to the exclude list whatever the list and the mode were
exclude_plugin_append(wrote, tenant_id, plugin_id) ==
    LET s == strategy[tenant_id] IN
    IF ~wrote THEN strategy
    ELSE [strategy EXCEPT ![tenant_id] =
             IF s = None
             THEN StrategyRecord("disabled", 0, "exclude", <<plugin_id>>, <<>>)
             ELSE [s EXCEPT !.upgrade_mode = "exclude",
                            !.exclude_plugins = Append(@, plugin_id)]]

\* PluginAutoUpgradeService.exclude_plugin(tenant_id, plugin_id) -> bool: an
\* idempotent add to the exclude set, which switches upgrade_mode to exclude and
\* seeds the set with the one id when the mode was not exclude
exclude_plugin(wrote, tenant_id, plugin_id) ==
    LET s == strategy[tenant_id] IN
    IF ~wrote THEN strategy
    ELSE [strategy EXCEPT ![tenant_id] =
             IF s = None
             THEN StrategyRecord("disabled", 0, "exclude", <<plugin_id>>, <<>>)
             ELSE IF s.upgrade_mode # "exclude"
             THEN [s EXCEPT !.upgrade_mode = "exclude", !.exclude_plugins = <<plugin_id>>]
             ELSE IF \E i \in 1..Len(s.exclude_plugins) : s.exclude_plugins[i] = plugin_id
             THEN s
             ELSE [s EXCEPT !.exclude_plugins = Append(@, plugin_id)]]

PluginAutoUpgradeExcludePluginApi_post ==
    /\ Delivered
    /\ \E u \in Callers, id \in PluginIds, wrote \in BOOLEAN :
           /\ req' = [op |-> "exclude_plugin", user |-> u]
           /\ IF Intercept("exclude_plugin", u) # NoExc
              THEN Stop(NotParsed, Intercept("exclude_plugin", u)) /\ strategy' = strategy
              ELSE /\ args' = [parsed |-> TRUE, plugin_id |-> id]
                   /\ calls' = <<Call("PluginAutoUpgradeService.exclude_plugin",
                                      TenantOf(u), <<id>>)>>
                   /\ daemon' = Returned(wrote)
                   /\ resp' = Ok(SuccessBody(wrote))
                   /\ strategy' = exclude_plugin(wrote, TenantOf(u), id)
           /\ UNCHANGED <<permission, tasks, pending>>

(***************************************************************************)
(* Specifications.                                                         *)
(***************************************************************************)
\* the response is returned to the caller, and the worker that served it is idle
Return ==
    /\ resp.kind \in {"ok", "error"}
    /\ req' = NoRequest
    /\ args' = NotParsed
    /\ calls' = <<>>
    /\ daemon' = NoOutcome
    /\ resp' = Quiet
    /\ pending' = [w \in Workers |-> IF pending[w].pc = "done" THEN IdleHandler ELSE pending[w]]
    /\ UNCHANGED stores

Init ==
    /\ permission = [t \in Tenants |-> None]
    /\ strategy = [t \in Tenants |-> None]
    /\ tasks = [key \in TaskKeys |-> NoTask]
    /\ req = NoRequest
    /\ args = NotParsed
    /\ calls = <<>>
    /\ daemon = NoOutcome
    /\ resp = Quiet
    /\ pending = [w \in Workers |-> IdleHandler]

\* the resources that hand a request to the plugin daemon, with the permission
\* decorator of the gated ones, while the permission of the tenant is changed or read
Next ==
    \/ PluginDebuggingKeyApi_get
    \/ PluginListApi_get
    \/ PluginListLatestVersionsApi_post
    \/ PluginListInstallationsFromIdsApi_post
    \/ PluginIconApi_get
    \/ PluginUploadFromPkgApi_post
    \/ PluginUploadFromGithubApi_post
    \/ PluginUploadFromBundleApi_post
    \/ PluginInstallFromPkgApi_post
    \/ PluginInstallFromGithubApi_post
    \/ PluginInstallFromMarketplaceApi_post
    \/ PluginFetchMarketplacePkgApi_get
    \/ PluginFetchManifestApi_get
    \/ PluginFetchInstallTasksApi_get
    \/ PluginFetchInstallTaskApi_get
    \/ PluginDeleteInstallTaskApi_post
    \/ PluginDeleteAllInstallTaskItemsApi_post
    \/ PluginDeleteInstallTaskItemApi_post
    \/ PluginUpgradeFromMarketplaceApi_post
    \/ PluginUpgradeFromGithubApi_post
    \/ PluginUninstallApi_post
    \/ PluginFetchDynamicSelectOptionsApi_get
    \/ PluginChangePermissionApi_post
    \/ PluginFetchPermissionApi_get
    \/ plugin_permission_required_install
    \/ plugin_permission_required_debug
    \/ Return

Spec == Init /\ [][Next]_vars

\* the install tasks of the tenants: installs, the daemon's progress, queries and deletions
NextTasks ==
    \/ plugin_permission_required_install
    \/ PluginInstallFromPkgApi_post
    \/ PluginInstallFromGithubApi_post
    \/ PluginInstallFromMarketplaceApi_post
    \/ PluginUpgradeFromMarketplaceApi_post
    \/ PluginUpgradeFromGithubApi_post
    \/ DaemonProgress
    \/ PluginFetchInstallTasksApi_get
    \/ PluginFetchInstallTaskApi_get
    \/ PluginDeleteInstallTaskApi_post
    \/ PluginDeleteAllInstallTaskItemsApi_post
    \/ PluginDeleteInstallTaskItemApi_post
    \/ PluginDeleteInstallTaskItemApi_post_again
    \/ Return

SpecTasks == Init /\ [][NextTasks]_vars

\* the tenant policies: permission and auto-upgrade strategy, written and read by
\* handlers whose service calls interleave
NextPolicy ==
    \/ PluginChangePermissionApi_post
    \/ PluginFetchPermissionApi_get
    \/ PluginChangePreferencesApi_post
    \/ PluginChangePreferencesApi_post_strategy
    \/ PluginFetchPreferencesApi_get
    \/ PluginFetchPreferencesApi_get_strategy
    \/ Return

SpecPolicy == Init /\ [][NextPolicy]_vars

\* the auto-upgrade strategy: stored whole by change-preferences, amended by exclude-plugin
NextExclude ==
    \/ PluginChangePreferencesApi_post
    \/ PluginChangePreferencesApi_post_strategy
    \/ PluginAutoUpgradeExcludePluginApi_post
    \/ Return

SpecExclude == Init /\ [][NextExclude]_vars

(***************************************************************************)
(* Properties.                                                             *)
(***************************************************************************)
\* the caller's tenant and its stored permission, for an authenticated caller
Tenant == req.user.current_tenant_id

UploadMax == IF req.op = "upload_pkg" THEN PLUGIN_MAX_PACKAGE_SIZE ELSE PLUGIN_MAX_BUNDLE_SIZE

\* C1: an uploaded package or bundle whose size is greater than the configured
\* maximum fails without any daemon upload call, and one whose size is at most
\* the maximum reaches the daemon upload call.
C1_OversizeNeverUploaded ==
    (req.op \in {"upload_pkg", "upload_bundle"} /\ args.parsed) =>
        /\ args.file.size > UploadMax => resp.kind = "error" /\ calls = <<>>
        /\ args.file.size <= UploadMax => calls # <<>>

BatchOf == args.plugin_unique_identifiers

SomeNotString == \E i \in 1..Len(BatchOf) : BatchOf[i].type # "str"

\* an element of a batch that is no valid plugin identifier: not a string, or a
\* string that names no plugin
Malformed(x) == x.type # "str" \/ x.value \notin {"a", "b"}

\* C2 as stated: install-from-local-package and install-from-marketplace fail as
\* a whole, without any call of the install service, when one element of the
\* submitted plugin_unique_identifiers is malformed.
C2_MalformedBatchFails ==
    (/\ req.op \in {"install_pkg", "install_marketplace"}
     /\ args.parsed
     /\ \E i \in 1..Len(BatchOf) : Malformed(BatchOf[i])) =>
        /\ resp.kind = "error"
        /\ calls = <<>>

\* C2, amended: install-from-local-package and install-from-marketplace fail as
\* a whole with a ValueError, without any call of the install service, when one
\* element of the submitted plugin_unique_identifiers is not a string; a batch
\* of strings, well-formed identifiers or not, is handed whole to the install
\* service in one call.
C2_MalformedBatchRejected ==
    (req.op \in {"install_pkg", "install_marketplace"} /\ args.parsed) =>
        /\ SomeNotString =>
               /\ resp.kind = "error"
               /\ resp.exc.cls = "ValueError"
               /\ calls = <<>>
        /\ ~SomeNotString =>
               /\ Len(calls) = 1
               /\ calls[1].args = <<BatchOf>>

\* a batch of a well-formed and a malformed element, rejected
C2_Witness ==
    /\ req.op = "install_pkg"
    /\ args.parsed
    /\ Len(BatchOf) = 2
    /\ BatchOf[1].type = "str"
    /\ BatchOf[2].type # "str"
    /\ resp.kind = "error"
    /\ calls = <<>>

\* C3 as stated: every service call made for an authenticated caller that takes
\* a tenant id is handed the caller's current tenant.
C3_CallerTenantOnly ==
    req.user.authenticated =>
        \A i \in 1..Len(calls) :
            calls[i].tenant_id # NoTenant => calls[i].tenant_id = Tenant

\* C3, amended: every service call that takes a tenant id is handed the current
\* tenant of the authenticated caller, except the call of asset (icon)
\* retrieval, which is handed the tenant_id argument of the request.
C3_CallerTenantExceptAssets ==
    \A i \in 1..Len(calls) :
        calls[i].tenant_id # NoTenant =>
            IF req.op = "icon"
            THEN calls[i].tenant_id = args.tenant_id
            ELSE req.user.authenticated /\ calls[i].tenant_id = Tenant

\* a member of t1 is served an asset of t2
C3_Witness ==
    /\ req.op = "icon"
    /\ req.user.authenticated
    /\ Tenant = "t1"
    /\ args.parsed
    /\ args.tenant_id = "t2"
    /\ Len(calls) = 1
    /\ calls[1].tenant_id = "t2"
    /\ resp.kind = "ok"

InstallGated ==
    {"upload_pkg", "upload_github", "upload_bundle", "install_pkg", "install_github",
     "install_marketplace", "upgrade_marketplace", "upgrade_github", "uninstall",
     "fetch_manifest", "marketplace_pkg", "tasks", "task", "task_delete",
     "task_delete_all", "task_item_delete"}

\* caller u fails the check of a stored permission level
Fails(level, u) == level = "noone" \/ (level = "admins" /\ ~u.is_admin_or_owner)

\* the step shows a request, or another step of the request shown
Shown == <<req, args, calls, daemon, resp>>' # <<req, args, calls, daemon, resp>>

\* C4: no upload, install, upgrade, uninstall, manifest fetch or install-task
\* query or delete reaches the service, and no debugging key is returned,
\* unless the permission decorator has let the caller through; and the
\* decorator lets no caller through who is not logged in or who fails the
\* tenant's install-permission check (debug-permission check for the debugging
\* key) against the permission stored when the decorator runs.
C4_PermissionGate ==
    [][/\ (Shown /\ req'.op \in InstallGated /\ calls' # <<>>) =>
              \E w \in Workers : /\ pending[w] = Admitted(req'.user, Install)
                                 /\ pending'[w].pc = "idle"
       /\ (Shown /\ req'.op = "debugging_key" /\ (calls' # <<>> \/ resp'.kind = "ok")) =>
              \E w \in Workers : /\ pending[w] = Admitted(req'.user, Debug)
                                 /\ pending'[w].pc = "idle"
       /\ \A w \in Workers :
              (pending'[w].pc = "admitted" /\ pending'[w] # pending[w]) =>
                  LET u == pending'[w].user
                      p == permission[u.current_tenant_id]
                  IN  /\ u.authenticated
                      /\ pending'[w].decorators \in {Install, Debug}
                      /\ (p # None /\ pending'[w].decorators = Install) =>
                             ~Fails(p.install_permission, u)
                      /\ (p # None /\ pending'[w].decorators = Debug) =>
                             ~Fails(p.debug_permission, u)]_vars

\* a member of a tenant that lets only admins install asks for an uninstall
C4_Witness ==
    /\ req.op = "uninstall"
    /\ req.user.authenticated
    /\ ~req.user.is_admin_or_owner
    /\ permission[Tenant] # None
    /\ permission[Tenant].install_permission = "admins"
    /\ resp.kind = "error"
    /\ resp.exc = Forbidden
    /\ calls = <<>>

\* C5 as stated: the failure surfaced for an error of the daemon is the daemon's
\* error itself, and the call is not repeated.
C5_DaemonErrorAsIs ==
    daemon.kind = "raise" =>
        /\ resp.kind = "error"
        /\ resp.exc = daemon.exc
        /\ Len(calls) = 1

\* C5, amended: a PluginDaemonClientSideError of the daemon is surfaced as a
\* ValueError whose only argument is the daemon's error, any other error of the
\* daemon is surfaced unchanged, and in both cases the call is made once.
C5_DaemonErrorWrapped ==
    daemon.kind = "raise" =>
        /\ resp.kind = "error"
        /\ IF daemon.exc.cls = "PluginDaemonClientSideError"
           THEN resp.exc.cls = "ValueError" /\ resp.exc.args = <<daemon.exc>>
           ELSE resp.exc = daemon.exc
        /\ Len(calls) = 1

\* the daemon refuses an uninstall with a client-side error
C5_Witness ==
    /\ req.op = "uninstall"
    /\ daemon.kind = "raise"
    /\ daemon.exc.cls = "PluginDaemonClientSideError"
    /\ daemon.exc.code = "unavailable"
    /\ resp.kind = "error"
    /\ resp.exc.cls = "ValueError"

Everyone == [install_permission |-> "everyone", debug_permission |-> "everyone"]

\* C6: for a tenant with no stored permission record, fetch-permission and
\* fetch-preferences succeed and report everyone / everyone, as they do for a
\* stored record {everyone, everyone}, and a fetch changes no stored record;
\* fetch-preferences reports the permission as it was when it read it.
C6_AbsentPermissionIsEveryone ==
    [][/\ (req'.op = "permission_fetch" /\ req'.user.authenticated) =>
              /\ resp'.kind = "ok"
              /\ permission' = permission
              /\ strategy' = strategy
              /\ (permission[req'.user.current_tenant_id] = None
                    \/ permission[req'.user.current_tenant_id] = Everyone) =>
                     resp'.body = Everyone
       /\ (req'.op = "preferences_fetch" /\ req'.user.authenticated) =>
              /\ resp'.kind \in {"working", "ok"}
              /\ permission' = permission
              /\ strategy' = strategy
              /\ \A w \in Workers :
                     /\ (pending'[w].pc = "get_strategy" /\ pending'[w] # pending[w]) =>
                            /\ resp'.kind = "working"
                            /\ pending'[w].permission = permission[req'.user.current_tenant_id]
                     /\ (pending[w].pc = "get_strategy" /\ pending'[w] # pending[w]) =>
                            /\ resp'.kind = "ok"
                            /\ (pending[w].permission = None
                                  \/ pending[w].permission = Everyone) =>
                                   resp'.body.permission = Everyone]_vars

\* fetch-permission answers a tenant that has no record
C6_Witness ==
    /\ req.op = "permission_fetch"
    /\ req.user.authenticated
    /\ permission[Tenant] = None
    /\ resp.kind = "ok"
    /\ resp.body = Everyone

DefaultStrategy == StrategyRecord("disabled", 0, "exclude", <<>>, <<>>)

\* C7: fetch-preferences reports (disabled, 0, exclude, [], []) for a tenant
\* with no stored strategy, and a successful change-preferences whose
\* auto_upgrade object omits all five keys stores those same values, so that
\* a following fetch-preferences reports what it reported without a record.
C7_SameDefaultsOnReadAndWrite ==
    /\ (req.op = "preferences_fetch" /\ resp.kind = "ok" /\ strategy[Tenant] = None) =>
           resp.body.auto_upgrade = DefaultStrategy
    /\ (req.op = "preferences_change" /\ resp.kind = "ok" /\ resp.body.success
          /\ args.auto_upgrade = AllAbsent) =>
           /\ strategy[Tenant] = DefaultStrategy
           /\ StrategyView(get_strategy(Tenant)) = StrategyView(None)

\* a key of a request dictionary holds a value that is no member of the enum
Bad(opt, members) == opt # <<>> /\ opt[1] \notin members

\* the request handled carries a permission level, a strategy setting or an
\* upgrade mode that is no member of its enum
BadEnum ==
    /\ args.parsed
    /\ \/ /\ req.op = "permission_change"
          /\ \/ args.install_permission \notin {"everyone", "admins", "noone"}
             \/ args.debug_permission \notin {"everyone", "admins", "noone"}
       \/ /\ req.op = "preferences_change"
          /\ \/ Bad(args.permission.install_permission, {"everyone", "admins", "noone"})
             \/ Bad(args.permission.debug_permission, {"everyone", "admins", "noone"})
             \/ Bad(args.auto_upgrade.strategy_setting, {"disabled", "fix_only", "all"})
             \/ Bad(args.auto_upgrade.upgrade_mode, {"exclude", "include"})

\* C8: a change-permission or change-preferences request with a value that is
\* no member of its enum fails before any service call, and leaves the stored
\* permission and the stored auto-upgrade strategy as they were.
C8_BadEnumRejected ==
    [][BadEnum' =>
          /\ resp'.kind = "error"
          /\ resp'.exc.cls = "ValueError"
          /\ calls' = <<>>
          /\ permission' = permission
          /\ strategy' = strategy]_vars

\* change-preferences with a valid permission object and a bad upgrade mode
C8_Witness ==
    /\ req.op = "preferences_change"
    /\ args.parsed
    /\ args.permission.install_permission = <<"admins">>
    /\ args.permission.debug_permission = <<"noone">>
    /\ args.auto_upgrade.strategy_setting = <<"all">>
    /\ args.auto_upgrade.upgrade_mode = <<"bogus">>
    /\ resp.kind = "error"
    /\ permission[Tenant] = None

StatusesOf(task) == {task.items[i] : i \in {j \in PluginIds : task.items[j] # "-"}}

\* the aggregate status and the item statuses agree as the data model requires
Agrees(status, st) ==
    /\ status \in {"pending", "running", "completed", "partial_failure"}
    /\ status = "completed" <=> st = {"success"}
    /\ status = "partial_failure" <=> ("failed" \in st /\ "pending" \notin st /\ "running" \notin st)
    /\ st = {"pending", "success"} => status = "running"

\* C9: after any progress updates and item deletions, the status of a task,
\* stored and as fetched, is completed iff all its items are success,
\* partial_failure iff an item is failed and none is pending or running, and
\* running or pending otherwise; items pending and success report running.
C9_AggregateStatus ==
    /\ \A key \in TaskKeys :
           tasks[key].exists =>
               /\ StatusesOf(tasks[key]) # {}
               /\ Agrees(TaskView(key[2], tasks[key]).status, StatusesOf(tasks[key]))
    /\ (req.op = "task" /\ resp.kind = "ok") =>
           /\ resp.body.task.items = tasks[<<Tenant, args.task_id>>].items
           /\ Agrees(resp.body.task.status, StatusesOf(resp.body.task))

\* a task of a failed and a success item is fetched
C9_Witness ==
    /\ req.op = "task"
    /\ resp.kind = "ok"
    /\ resp.body.task.items["a"] = "failed"
    /\ resp.body.task.items["b"] = "success"
    /\ resp.body.task.status = "partial_failure"

TargetKey == <<Tenant, args.task_id>>

TargetKeyNext == <<req'.user.current_tenant_id, args'.task_id>>

\* the method of a gated resource runs in this step
MethodRuns == \E w \in Workers : pending[w].pc = "admitted" /\ pending'[w].pc = "idle"

\* C10: a delete-item call for an existing item answers true, removes the item
\* and, when it was the last one, the task; the same call made again right
\* away answers false, raises no error and changes no state.
C10_DeleteItemIdempotent ==
    [][/\ (/\ resp.kind = "none"
           /\ req'.op = "task_item_delete"
           /\ args'.parsed
           /\ TargetKeyNext \in TaskKeys
           /\ args'.identifier \in PluginIds
           /\ tasks[TargetKeyNext].items[args'.identifier] # "-"
           /\ daemon'.kind = "ok") =>
              /\ resp' = Ok([success |-> TRUE])
              /\ tasks'[TargetKeyNext].items[args'.identifier] = "-"
              /\ tasks'[TargetKeyNext].exists <=> tasks'[TargetKeyNext].items # NoItems
              /\ \A key \in TaskKeys \ {TargetKeyNext} : tasks'[key] = tasks[key]
       /\ (/\ req.op = "task_item_delete"
           /\ resp = Ok([success |-> TRUE])
           /\ req'.op = "task_item_delete"
           /\ MethodRuns) =>
              /\ req' = req
              /\ args' = args
              /\ tasks' = tasks
              /\ daemon'.kind = "ok" => resp' = Ok([success |-> FALSE])
              /\ daemon'.kind = "raise" => daemon'.exc \in DaemonErrors]_vars

\* the last item of a task has just been deleted, and the task with it
C10_Witness ==
    /\ req.op = "task_item_delete"
    /\ resp = Ok([success |-> TRUE])
    /\ TargetKey \in TaskKeys
    /\ ~tasks[TargetKey].exists

\* how many times id occurs in a list of plugin ids
Occurrences(list, id) == Cardinality({i \in 1..Len(list) : list[i] = id})

\* a stored strategy keeps each plugin id at most once in each of its lists
NoDuplicates(s) ==
    s # None =>
        \A id \in PluginIds :
            Occurrences(s.exclude_plugins, id) <= 1 /\ Occurrences(s.include_plugins, id) <= 1

\* C11: after exclude-plugin succeeds, whatever strategy the tenant had before
\* (none, include mode, an exclude list that already holds the id after an
\* earlier call), the tenant's upgrade_mode is exclude and exclude_plugins holds
\* the id exactly once; after include mode it holds only that id, and a
\* repetition of a call that succeeded changes nothing.
C11_ExcludePluginIdempotent ==
    [][(req'.op = "exclude_plugin" /\ resp' = Ok([success |-> TRUE])) =>
          LET t == req'.user.current_tenant_id
              id == args'.plugin_id
              before == strategy[t]
              after == strategy'[t]
          IN  /\ after # None
              /\ after.upgrade_mode = "exclude"
              /\ Occurrences(after.exclude_plugins, id) = 1
              /\ NoDuplicates(after)
              /\ (before # None /\ before.upgrade_mode = "include") =>
                     after.exclude_plugins = <<id>>
              /\ (before # None /\ before.upgrade_mode = "exclude"
                    /\ Occurrences(before.exclude_plugins, id) = 1) => after = before
              /\ \A other \in Tenants \ {t} : strategy'[other] = strategy[other]]_vars

\* exclude-plugin has succeeded for a tenant whose strategy was stored by
\* change-preferences, and the exclude list now holds two ids
C11_Witness ==
    /\ req.op = "exclude_plugin"
    /\ resp = Ok([success |-> TRUE])
    /\ args.plugin_id = "a"
    /\ strategy[Tenant].strategy_setting = "all"
    /\ strategy[Tenant].include_plugins = <<"b">>
    /\ strategy[Tenant].upgrade_mode = "exclude"
    /\ strategy[Tenant].exclude_plugins = <<"b", "a">>

\* C12: change-permission, change-preferences and exclude-plugin are rejected
\* with Forbidden, and leave the stored permission and strategy as they were,
\* when the caller is logged in but is neither admin nor owner of the tenant.
C12_WritersNeedAdmin ==
    [][(/\ req'.op \in {"permission_change", "preferences_change", "exclude_plugin"}
        /\ req'.user.authenticated
        /\ ~req'.user.is_admin_or_owner) =>
          /\ resp' = Raise(Forbidden)
          /\ permission' = permission
          /\ strategy' = strategy]_vars

PermissionWrite == "PluginPermissionService.change_permission"

StrategyWrite == "PluginAutoUpgradeService.change_strategy"

\* C13: change-preferences writes the permission before the strategy and stops at
\* the first failed write: a permission write that returns false ends the request
\* with success = false and no strategy write; a strategy write that returns
\* false ends it with success = false and leaves the permission the first write
\* stored untouched; success = true is answered only after both writes returned true.
C13_WritesInOrder ==
    [][(req'.op = "preferences_change" /\ Len(calls') > 0) =>
          /\ calls'[1].svc = PermissionWrite
          /\ Len(calls') <= 2
          /\ Len(calls') = 2 =>
                 /\ calls'[2].svc = StrategyWrite
                 /\ \E w \in Workers : /\ pending[w].pc = "set_strategy"
                                       /\ pending[w].calls = <<calls'[1]>>
                                       /\ pending[w].user = req'.user
                                       /\ pending'[w].pc = "done"
                 /\ permission' = permission
                 /\ resp'.kind = "ok"
                 /\ resp'.body.success = daemon'.value
                 /\ ~daemon'.value => strategy' = strategy
                 /\ daemon'.value =>
                        strategy'[req'.user.current_tenant_id] = calls'[2].args[1]
          /\ Len(calls') = 1 =>
                 /\ strategy' = strategy
                 /\ IF daemon'.value
                    THEN /\ resp'.kind = "working"
                         /\ permission'[req'.user.current_tenant_id] =
                                PermissionRecord(calls'[1].args[1], calls'[1].args[2])
                         /\ \E w \in Workers : /\ pending[w].pc = "idle"
                                               /\ pending'[w].pc = "set_strategy"
                    ELSE /\ resp'.kind = "ok"
                         /\ ~resp'.body.success
                         /\ permission' = permission
                         /\ pending' = pending]_vars

\* the strategy write failed after the permission write had stored a new permission
C13_Witness ==
    /\ req.op = "preferences_change"
    /\ Len(calls) = 2
    /\ daemon = Returned(FALSE)
    /\ resp.kind = "ok"
    /\ ~resp.body.success
    /\ permission[Tenant] = PermissionRecord("admins", "noone")
    /\ strategy[Tenant] = None

\* the handler on worker w has answered success = true to a change-preferences
\* request of tenant t
Succeeded(w, t) ==
    /\ pending[w].pc = "done"
    /\ pending[w].user.current_tenant_id = t
    /\ pending[w].success

\* C14: when two change-preferences requests of one tenant, served at the same
\* time, have both answered success = true, the stored permission and strategy
\* of the tenant are the pair one of the two requests submitted.
C14_NoMixedPreferences ==
    \A t \in Tenants :
        (Succeeded("w1", t) /\ Succeeded("w2", t)) =>
            \E w \in Workers :
                /\ permission[t] = PermissionOf(pending[w].args.permission)
                /\ strategy[t] = StrategyOf(pending[w].args.auto_upgrade)

====
